---------------------------- MODULE Spec2Model ----------------------------
(***************************************************************************)
(* A model of quickcache: the RESP codec and command interpreter           *)
(* (src/src/resp.rs), the kqueue reactor (src/src/main.rs), the expiring   *)
(* store (src/src/storage.rs) and the worker pool (src/src/threadpool.rs). *)
(*                                                                         *)
(* A byte is a one-character string; a buffer or a Rust String is a        *)
(* sequence of bytes.  XFF stands for a byte that is not valid UTF-8.      *)
(***************************************************************************)
EXTENDS Integers, Sequences, FiniteSets, TLC

VARIABLES
    \* ---- reactor (main.rs) ----
    streams_map,   \* fd -> [write_buffer]: the connection table
    kq,            \* the kqueue's registered (ident, filter) pairs
    events,        \* the batch returned by get_kqueue_events, still to dispatch
    backlog,       \* connections waiting in the listener's accept queue
    crashed,       \* the reactor thread has panicked (the process is gone)
    log,           \* the line the reactor printed last
    replies,       \* fd -> the replies to the requests read so far, in receipt order
    sent,          \* fd -> the bytes the socket has accepted, in order
    fragment,      \* fd -> the last read on fd ended inside a request
    nconn,         \* connections that have reached the listener so far
    nreq,          \* requests handle_read has returned so far
    \* ---- store (storage.rs) ----
    data,          \* key -> DataValue
    now,           \* the monotonic clock, in ticks
    lastSet,       \* key -> the arguments and time of the last set
    got,           \* the last get: its key and what it returned
    \* ---- codec (resp.rs) ----
    cval,          \* the RedisValue under test
    cbuf,          \* its encoding
    cres,          \* what parse_resp returned for cbuf
    cpc,           \* codec run position
    csrc,          \* how cbuf was made: an encoding, two encodings in a row, raw bytes
    ccmd,          \* what extract_commands returned for cbuf
    creply,        \* what handle_request made of ccmd
    overflow_checks, \* the build traps integer overflow (debug profile) or wraps
    \* ---- worker pool (threadpool.rs) ----
    queue,         \* the mpsc channel's buffered jobs
    sender,        \* ThreadPool.sender is Some
    lock,          \* holder of the Mutex around the Receiver (0 = free)
    wpc,           \* worker -> position in the worker loop
    wjob,          \* worker -> the job it took
    jobs,          \* job -> kind, as submitted
    runs,          \* job -> how many times it was started
    completed,     \* the jobs that returned
    finished,      \* the jobs that returned, in the order they returned
    thread_count,  \* ThreadPool.thread_count
    owner,         \* the pool owner's position
    joined         \* how many workers drop has joined

reactorVars == <<streams_map, kq, events, backlog, crashed, log, replies, sent, fragment,
                 nconn, nreq>>
storeVars   == <<data, now, lastSet, got>>
codecVars   == <<cval, cbuf, cres, cpc, csrc, ccmd, creply, overflow_checks>>
poolVars    == <<queue, sender, lock, wpc, wjob, jobs, runs, completed, finished,
                 thread_count, owner, joined>>
vars == <<reactorVars, storeVars, codecVars, poolVars>>

\* what the steps of one component leave alone
notReactor == <<storeVars, codecVars, poolVars>>
notStore   == <<reactorVars, codecVars, poolVars>>
notCodec   == <<reactorVars, storeVars, poolVars>>
notPool    == <<reactorVars, storeVars, codecVars>>

-----------------------------------------------------------------------------
(* Bytes *)

CR == "\r"
LF == "\n"
XFF == "0xFF"

Min(a, b) == IF a < b THEN a ELSE b
Max(a, b) == IF a > b THEN a ELSE b

DigitChars == <<"0", "1", "2", "3", "4", "5", "6", "7", "8", "9">>
IsDigit(c) == \E i \in 1..10 : DigitChars[i] = c
DigitOf(c) == (CHOOSE i \in 1..10 : DigitChars[i] = c) - 1

\* format!("{}", n) of a non-negative integer
RECURSIVE NatToBytes(_)
NatToBytes(n) ==
    IF n < 10 THEN <<DigitChars[n + 1]>>
    ELSE NatToBytes(n \div 10) \o <<DigitChars[(n % 10) + 1]>>

\* format!("{}", i) of a signed integer
IntToBytes(i) == IF i < 0 THEN <<"-">> \o NatToBytes(-i) ELSE NatToBytes(i)

RECURSIVE DigitsValue(_)
DigitsValue(ds) ==
    IF ds = <<>> THEN 0
    ELSE 10 * DigitsValue(SubSeq(ds, 1, Len(ds) - 1)) + DigitOf(ds[Len(ds)])

AllDigits(ds) == ds # <<>> /\ \A i \in 1..Len(ds) : IsDigit(ds[i])

\* str::parse for a signed integer type: an optional sign, then digits only.
\* (Inputs stay far below the type's range, so the overflow error never arises.)
ParseSigned(bs) ==
    IF bs # <<>> /\ bs[1] \in {"-", "+"}
    THEN LET ds == Tail(bs) IN
         IF AllDigits(ds)
         THEN [ok |-> TRUE, n |-> IF bs[1] = "-" THEN -DigitsValue(ds) ELSE DigitsValue(ds)]
         ELSE [ok |-> FALSE, n |-> 0]
    ELSE IF AllDigits(bs) THEN [ok |-> TRUE, n |-> DigitsValue(bs)]
         ELSE [ok |-> FALSE, n |-> 0]

\* A u64 is kept exactly, as its decimal digits without leading zeros.
RECURSIVE StripZeros(_)
StripZeros(ds) == IF Len(ds) > 1 /\ ds[1] = "0" THEN StripZeros(Tail(ds)) ELSE ds

\* a < b, for two numbers in decimal
DecLess(a, b) ==
    \/ Len(a) < Len(b)
    \/ /\ Len(a) = Len(b)
       /\ \E i \in 1..Len(a) : /\ DigitOf(a[i]) < DigitOf(b[i])
                               /\ \A j \in 1..(i - 1) : a[j] = b[j]

\* u64::MAX = 2^64 - 1, and 2^64
U64_MAX == <<"1", "8", "4", "4", "6", "7", "4", "4", "0", "7",
             "3", "7", "0", "9", "5", "5", "1", "6", "1", "5">>
U64_MODULUS == <<"1", "8", "4", "4", "6", "7", "4", "4", "0", "7",
                 "3", "7", "0", "9", "5", "5", "1", "6", "1", "6">>

Reverse(s) == [i \in 1..Len(s) |-> s[Len(s) + 1 - i]]

\* a - b - borrow, digit by digit from the least significant digit
RECURSIVE sub_digits(_, _, _)
sub_digits(a, b, borrow) ==
    IF a = <<>> THEN <<>>
    ELSE LET x == DigitOf(a[1])
             y == (IF b = <<>> THEN 0 ELSE DigitOf(b[1])) + borrow
         IN <<DigitChars[(IF x >= y THEN x - y ELSE x + 10 - y) + 1]>>
              \o sub_digits(Tail(a), IF b = <<>> THEN <<>> ELSE Tail(b),
                            IF x >= y THEN 0 ELSE 1)

\* a - b, for a >= b
DecSub(a, b) == StripZeros(Reverse(sub_digits(Reverse(a), Reverse(b), 0)))

\* a mod m
RECURSIVE DecMod(_, _)
DecMod(a, m) == IF DecLess(a, m) THEN a ELSE DecMod(DecSub(a, m), m)

\* n * 1000 in unbounded arithmetic
Times1000(ds) == IF ds = <<"0">> THEN ds ELSE ds \o <<"0", "0", "0">>

\* u64::wrapping_mul(n, 1000): n * 1000 mod 2^64
wrapping_mul_1000(ds) ==
    DecMod(DecMod(DecMod(Times1000(ds), U64_MODULUS \o <<"0", "0">>),
                  U64_MODULUS \o <<"0">>),
           U64_MODULUS)

\* str::parse::<u64>: an optional '+', then digits only; a number above
\* u64::MAX is an error.
ParseUnsigned(bs) ==
    LET ds == IF bs # <<>> /\ bs[1] = "+" THEN Tail(bs) ELSE bs IN
    IF AllDigits(ds) /\ ~DecLess(U64_MAX, StripZeros(ds))
    THEN [ok |-> TRUE, n |-> StripZeros(ds)]
    ELSE [ok |-> FALSE, n |-> <<"0">>]

\* String::from_utf8 succeeds
IsUtf8(bs) == \A i \in 1..Len(bs) : bs[i] # XFF

LowerChars == <<"p", "i", "n", "g", "e", "c", "h", "o", "s", "t", "x">>
UpperChars == <<"P", "I", "N", "G", "E", "C", "H", "O", "S", "T", "X">>
UpperByte(c) ==
    IF \E i \in 1..Len(LowerChars) : LowerChars[i] = c
    THEN UpperChars[CHOOSE i \in 1..Len(LowerChars) : LowerChars[i] = c]
    ELSE c
\* a to_uppercase that leaves the string as it is
to_uppercase_asis(s) == s

\* str::to_uppercase, over the letters the model's inputs use
to_uppercase(s) == [i \in 1..Len(s) |-> UpperByte(s[i])]

-----------------------------------------------------------------------------
(* RedisValue and its encoding (resp.rs 4-34) *)

SimpleString(s) == [t |-> "SimpleString", s |-> s]
Error(s)        == [t |-> "Error", s |-> s]
Integer(i)      == [t |-> "Integer", i |-> i]
BulkString(s)   == [t |-> "BulkString", s |-> s]
BulkStringNone  == [t |-> "BulkStringNone"]
Array(a)        == [t |-> "Array", a |-> a]
ArrayNone       == [t |-> "ArrayNone"]
Boolean(b)      == [t |-> "Boolean", b |-> b]
Null            == [t |-> "Null"]

RECURSIVE to_resp_string(_)
RECURSIVE ConcatEncodings(_)
ConcatEncodings(a) ==
    IF a = <<>> THEN <<>>
    ELSE to_resp_string(Head(a)) \o ConcatEncodings(Tail(a))

to_resp_string(v) ==
    CASE v.t = "SimpleString"   -> <<"+">> \o v.s \o <<CR, LF>>
      [] v.t = "Error"          -> <<"-">> \o v.s \o <<CR, LF>>
      [] v.t = "Integer"        -> <<":">> \o IntToBytes(v.i) \o <<CR, LF>>
      [] v.t = "BulkString"     -> <<"$">> \o NatToBytes(Len(v.s)) \o <<CR, LF>> \o v.s \o <<CR, LF>>
      [] v.t = "BulkStringNone" -> <<"$", "-", "1", CR, LF>>
      [] v.t = "Array"          -> <<"*">> \o NatToBytes(Len(v.a)) \o <<CR, LF>> \o ConcatEncodings(v.a)
      [] v.t = "ArrayNone"      -> <<"*", "-", "1", CR, LF>>
      [] v.t = "Boolean"        -> <<"#", IF v.b THEN "t" ELSE "f", CR, LF>>
      [] v.t = "Null"           -> <<"_", CR, LF>>

-----------------------------------------------------------------------------
(* The parser (resp.rs 46-241).  pos is the index of the byte the iterator  *)
(* yields next; Len(buf) + 1 means the iterator is exhausted.               *)

POk(v, pos)  == [kind |-> "Ok", v |-> v, pos |-> pos]
PErr(e)      == [kind |-> "Err", err |-> e]
PPanic(e)    == [kind |-> "Panic", err |-> e]

\* iter.next() n times: past the end it yields None and stays there
Advance(buf, pos, n) == Min(pos + n, Len(buf) + 1)

\* The loop every pick_* function starts with: skip the prefix byte, collect
\* bytes up to '\r', then skip the '\r' and the byte after it.  A buffer that
\* ends before any '\r' yields all its remaining bytes.
ReadLine(buf, pos) ==
    LET p == Advance(buf, pos, 1)
        hasCR == \E j \in p..Len(buf) : buf[j] = CR
        e == IF hasCR
             THEN CHOOSE j \in p..Len(buf) :
                      buf[j] = CR /\ \A k \in p..(j - 1) : buf[k] # CR
             ELSE Len(buf) + 1
    IN [bytes |-> SubSeq(buf, p, e - 1),
        pos |-> IF hasCR THEN Advance(buf, e, 2) ELSE e]

pick_simple_string(buf, pos) ==
    LET l == ReadLine(buf, pos) IN
    IF IsUtf8(l.bytes) THEN POk(SimpleString(l.bytes), l.pos)
    ELSE PErr("invalid utf-8")

pick_error(buf, pos) ==
    LET l == ReadLine(buf, pos) IN
    IF IsUtf8(l.bytes) THEN POk(Error(l.bytes), l.pos)
    ELSE PErr("invalid utf-8")

pick_integer(buf, pos) ==
    LET l == ReadLine(buf, pos) IN
    IF ~IsUtf8(l.bytes) THEN PErr("invalid utf-8")
    ELSE IF ~ParseSigned(l.bytes).ok THEN PErr("invalid digit")
    ELSE POk(Integer(ParseSigned(l.bytes).n), l.pos)

pick_bulk_string(buf, pos) ==
    LET l == ReadLine(buf, pos) IN
    IF ~IsUtf8(l.bytes) THEN PErr("invalid utf-8")
    ELSE IF ~ParseSigned(l.bytes).ok THEN PErr("invalid digit")
    ELSE LET len == ParseSigned(l.bytes).n
             count == Max(len, 0)       \* for _ in 0..len: empty when len < 0
         IN IF len = -1 THEN POk(BulkStringNone, l.pos)
            ELSE IF l.pos + count - 1 > Len(buf) THEN PErr("Unexpected end of input")
            ELSE LET body == SubSeq(buf, l.pos, l.pos + count - 1) IN
                 IF IsUtf8(body)
                 THEN POk(BulkString(body), Advance(buf, l.pos + count, 2))
                 ELSE PErr("invalid utf-8")

pick_boolean(buf, pos) ==
    LET l == ReadLine(buf, pos) IN
    IF ~IsUtf8(l.bytes) THEN PErr("invalid utf-8")
    ELSE IF l.bytes = <<"t">> THEN POk(Boolean(TRUE), l.pos)
    ELSE IF l.bytes = <<"f">> THEN POk(Boolean(FALSE), l.pos)
    ELSE PErr("Unexpected byte in boolean")

RECURSIVE pick_array(_, _)
RECURSIVE pick_array_elements(_, _, _)

\* The element loop of pick_array (resp.rs 143-170): it runs while the
\* iterator has bytes, whatever the header count was.
pick_array_elements(buf, pos, array) ==
    IF pos > Len(buf) THEN POk(Array(array), pos)
    ELSE LET b == buf[pos]
             r == CASE b = "+" -> pick_simple_string(buf, pos)
                    [] b = "-" -> pick_error(buf, pos)
                    [] b = ":" -> pick_integer(buf, pos)
                    [] b = "$" -> pick_bulk_string(buf, pos)
                    [] b = "*" -> pick_array(buf, pos)
                    [] OTHER   -> PErr("Unexpected byte in array")
         IN IF b = CR THEN POk(Array(array), Advance(buf, pos, 2))
            ELSE IF r.kind # "Ok" THEN r
            ELSE pick_array_elements(buf, r.pos, Append(array, r.v))

pick_array(buf, pos) ==
    LET l == ReadLine(buf, pos) IN
    IF ~IsUtf8(l.bytes) THEN PErr("invalid utf-8")
    ELSE IF ~ParseSigned(l.bytes).ok THEN PErr("invalid digit")
    ELSE LET len == ParseSigned(l.bytes).n IN
         IF len = -1 THEN POk(ArrayNone, l.pos)
         \* Vec::with_capacity(len as usize): a negative len is a huge usize
         ELSE IF len < 0 THEN PPanic("capacity overflow")
         ELSE pick_array_elements(buf, l.pos, <<>>)

\* Result<Option<RedisValue>>: kind "Ok" with some = FALSE is Ok(None)
ROk(v)   == [kind |-> "Ok", some |-> TRUE, v |-> v]
RNone    == [kind |-> "Ok", some |-> FALSE]
OfPick(r) == IF r.kind = "Ok" THEN ROk(r.v) ELSE r

InlinePing == <<"P", "I", "N", "G", CR, LF>>

RECURSIVE parse_resp_from(_, _)
parse_resp_from(buf, pos) ==
    IF pos > Len(buf) THEN RNone
    ELSE LET b == buf[pos] IN
         CASE b = "+" -> OfPick(pick_simple_string(buf, pos))
           [] b = "-" -> OfPick(pick_error(buf, pos))
           [] b = ":" -> OfPick(pick_integer(buf, pos))
           [] b = "$" -> OfPick(pick_bulk_string(buf, pos))
           [] b = "*" -> OfPick(pick_array(buf, pos))
           [] b = "#" -> OfPick(pick_boolean(buf, pos))
           [] b = "_" -> ROk(Null)
           [] b = "P" ->
                IF pos + 5 > Len(buf) THEN PErr("Unexpected end of input")
                ELSE LET six == SubSeq(buf, pos, pos + 5) IN
                     IF ~IsUtf8(six) THEN PErr("invalid utf-8")
                     ELSE IF six = InlinePing
                          THEN ROk(Array(<<SimpleString(<<"P", "I", "N", "G">>)>>))
                          ELSE parse_resp_from(buf, pos + 6)
           [] OTHER -> RNone

parse_resp(buffer) == parse_resp_from(buffer, 1)

-----------------------------------------------------------------------------
(* The command interpreter (resp.rs 36-44, 243-350) *)

PING(message)           == [c |-> "PING", message |-> message]
ECHO(message)           == [c |-> "ECHO", message |-> message]
GET(key)                == [c |-> "GET", key |-> key]
SET(key, value, expiry) == [c |-> "SET", key |-> key, value |-> value, expiry |-> expiry]
CONFIG                  == [c |-> "CONFIG"]
COMMAND                 == [c |-> "COMMAND"]

\* Option<u64> of a store call, in milliseconds
NoExpiry   == [some |-> FALSE, ms |-> 0]
Expiry(ms) == [some |-> TRUE, ms |-> ms]
\* Option<u64> of a SET command: the milliseconds exactly, in decimal
NoneU64      == [some |-> FALSE, dec |-> <<>>]
SomeU64(dec) == [some |-> TRUE, dec |-> dec]

COk(cmd) == [kind |-> "Ok", cmd |-> cmd]

\* the pattern  SimpleString(s) | BulkString(Some(s))
IsStringLike(v) == v.t \in {"SimpleString", "BulkString"}

B_PING    == <<"P", "I", "N", "G">>
B_PONG    == <<"P", "O", "N", "G">>
B_ECHO    == <<"E", "C", "H", "O">>
B_GET     == <<"G", "E", "T">>
B_SET     == <<"S", "E", "T">>
B_EX      == <<"E", "X">>
B_PX      == <<"P", "X">>
B_CONFIG  == <<"C", "O", "N", "F", "I", "G">>
B_COMMAND == <<"C", "O", "M", "M", "A", "N", "D">>

\* The SET option loop (resp.rs 305-334): args after key and value, taken as
\* (token, value) pairs; each EX or PX overwrites expiry.
RECURSIVE set_options(_, _)
set_options(rest, expiry) ==
    IF rest = <<>> THEN [kind |-> "Ok", expiry |-> expiry]
    ELSE LET arg == Head(rest) IN
         IF ~IsStringLike(arg) THEN PErr("Invalid argument for SET")
         ELSE LET tok == to_uppercase(arg.s) IN
              IF tok \notin {B_EX, B_PX} THEN PErr("Invalid argument for SET")
              ELSE IF Len(rest) < 2 THEN PErr("Invalid number of arguments for SET")
              ELSE LET val == rest[2] IN
                   IF ~IsStringLike(val) THEN PErr("Invalid argument for SET")
                   ELSE IF ~ParseUnsigned(val.s).ok THEN PErr("invalid digit")
                   ELSE IF tok = B_PX
                        THEN set_options(SubSeq(rest, 3, Len(rest)),
                                         SomeU64(ParseUnsigned(val.s).n))
                   \* s.parse::<u64>()? * 1000
                   ELSE IF ~DecLess(U64_MAX, Times1000(ParseUnsigned(val.s).n))
                        THEN set_options(SubSeq(rest, 3, Len(rest)),
                                         SomeU64(Times1000(ParseUnsigned(val.s).n)))
                   ELSE IF overflow_checks
                        THEN PPanic("attempt to multiply with overflow")
                        ELSE set_options(SubSeq(rest, 3, Len(rest)),
                                         SomeU64(wrapping_mul_1000(ParseUnsigned(val.s).n)))

\* the match on the parse result (resp.rs 245-349)
match_parsed(parsed) ==
    IF parsed.kind # "Ok" THEN parsed
    ELSE IF ~parsed.some THEN PErr("Invalid command parsed a None")
    ELSE IF parsed.v.t # "Array" THEN PErr("Invalid command couldnt match")
    \* &array[0] on an empty Vec: index out of bounds
    ELSE IF parsed.v.a = <<>> THEN PPanic("index out of bounds")
    ELSE LET command == parsed.v.a[1]
             args == Tail(parsed.v.a)
         IN
         IF ~IsStringLike(command) THEN PErr("Invalid command in matching")
         ELSE LET name == to_uppercase(command.s) IN
              CASE name = B_PING ->
                     IF Len(args) > 1 THEN PErr("Invalid number of arguments for PING")
                     ELSE IF Len(args) = 1
                          THEN IF IsStringLike(args[1]) THEN COk(PING(BulkString(args[1].s)))
                               ELSE PErr("Invalid argument for PING")
                          ELSE COk(PING(SimpleString(B_PONG)))
                [] name = B_ECHO ->
                     IF Len(args) # 1 THEN PErr("Invalid number of arguments for ECHO")
                     ELSE IF IsStringLike(args[1]) THEN COk(ECHO(BulkString(args[1].s)))
                          ELSE PErr("Invalid argument for ECHO")
                [] name = B_GET ->
                     IF Len(args) # 1 THEN PErr("Invalid number of arguments for GET")
                     ELSE IF IsStringLike(args[1]) THEN COk(GET(BulkString(args[1].s)))
                          ELSE PErr("Invalid argument for GET")
                [] name = B_SET ->
                     IF Len(args) < 2 THEN PErr("Invalid number of arguments for SET")
                     ELSE IF ~IsStringLike(args[1]) \/ ~IsStringLike(args[2])
                          THEN PErr("Invalid argument for SET")
                          ELSE LET o == set_options(SubSeq(args, 3, Len(args)), NoneU64) IN
                               IF o.kind # "Ok" THEN o
                               ELSE COk(SET(BulkString(args[1].s), BulkString(args[2].s),
                                            o.expiry))
                [] name = B_CONFIG  -> COk(CONFIG)
                [] name = B_COMMAND -> COk(COMMAND)
                [] OTHER -> PErr("Unknown command")

\* a parse result cut down to the command name and its first argument
drop_surplus(parsed) ==
    IF parsed.kind = "Ok" /\ parsed.some /\ parsed.v.t = "Array" /\ Len(parsed.v.a) > 2
    THEN [parsed EXCEPT !.v.a = SubSeq(@, 1, 2)]
    ELSE parsed

\* an extract_commands that ignores surplus arguments
extract_commands_lenient(buffer) == match_parsed(drop_surplus(parse_resp(buffer)))

extract_commands(buffer) == match_parsed(parse_resp(buffer))

-----------------------------------------------------------------------------
(* handle_request (main.rs 158-172) *)

ErrFailedToParse ==
    <<"-", "E", "R", "R", " ", "f", "a", "i", "l", "e", "d", " ", "t", "o", " ",
      "p", "a", "r", "s", "e", " ", "r", "e", "q", "u", "e", "s", "t", CR, LF>>
ErrUnknownCommand ==
    <<"-", "E", "R", "R", " ", "u", "n", "k", "n", "o", "w", "n", " ",
      "c", "o", "m", "m", "a", "n", "d", CR, LF>>

\* the two matches of handle_request on what extract_commands returned
match_extracted(extracted_command) ==
    CASE extracted_command.kind = "Panic" -> [panic |-> TRUE, bytes |-> <<>>]
      [] extracted_command.kind = "Err"   -> [panic |-> FALSE, bytes |-> ErrFailedToParse]
      [] OTHER ->
           IF extracted_command.cmd.c \in {"PING", "ECHO"}
           THEN [panic |-> FALSE, bytes |-> to_resp_string(extracted_command.cmd.message)]
           ELSE [panic |-> FALSE, bytes |-> ErrUnknownCommand]

\* The response bytes, or a panic that unwinds the calling (reactor) thread.
handle_request(request) == match_extracted(extract_commands(request))

-----------------------------------------------------------------------------
(* Bounds of the reactor model *)

MaxConnects == 2      \* connections the peers open in a run
MaxRequests == 2      \* requests handle_read returns in a run
MaxBatch    == 2      \* events one get_kqueue_events call returns
ShortWrite  == 16     \* bytes a short write accepts

-----------------------------------------------------------------------------
(* The reactor's inputs: what the peers send and what the socket calls return *)

ReqPing   == <<"*", "1", CR, LF, "$", "4", CR, LF, "P", "I", "N", "G", CR, LF>>
ReqSet    == <<"*", "3", CR, LF, "$", "3", CR, LF, "S", "E", "T", CR, LF,
               "$", "1", CR, LF, "k", CR, LF, "$", "1", CR, LF, "v", CR, LF>>
ReqGet    == <<"*", "2", CR, LF, "$", "3", CR, LF, "G", "E", "T", CR, LF,
               "$", "1", CR, LF, "k", CR, LF>>
ReqTruncated     == <<"$", "5", CR, LF, "a", "b">>
ReqBadUtf8       == <<"+", XFF, CR, LF>>
ReqBadLength     == <<"*", "x", CR, LF>>
ReqUnknownPrefix == <<"x", CR, LF>>
ReqEmptyArray    == <<"*", "0", CR, LF>>
ReqNegativeCount == <<"*", "-", "2", CR, LF>>

ValidRequests     == {ReqPing, ReqSet, ReqGet}
MalformedRequests == {ReqTruncated, ReqBadUtf8, ReqBadLength, ReqUnknownPrefix,
                      ReqEmptyArray, ReqNegativeCount}
\* a PING request cut in two, as two TCP segments deliver it
ReqPingHead == SubSeq(ReqPing, 1, 10)
ReqPingTail == SubSeq(ReqPing, 11, Len(ReqPing))
SplitRequests     == {ReqPingHead, ReqPingTail}
Requests          == ValidRequests \cup MalformedRequests \cup SplitRequests

\* let mut buffer = [0; 1024]  (main.rs 37)
BufferLen == 1024
\* a read that fills the whole buffer
FullChunk == [i \in 1..BufferLen |-> "x"]

\* one return of TcpStream::read / TcpStream::write
IoOk(bytes)  == [k |-> "Ok", data |-> bytes]
IoWouldBlock == [k |-> "WouldBlock", data |-> <<>>]
IoError      == [k |-> "Err", data |-> <<>>]

\* The returns of the successive read calls of one handle_read.  A read of
\* fewer than BufferLen bytes, a would-block and an error each end the loop.
ReadScripts ==
    {<<IoOk(r)>> : r \in Requests}
      \cup {<<IoOk(<<>>)>>, <<IoWouldBlock>>, <<IoError>>}
      \cup {<<IoOk(FullChunk), IoWouldBlock>>, <<IoOk(FullChunk), IoOk(<<>>)>>}

\* One return of a write call: the socket takes n bytes (all it is offered,
\* ShortWrite of them, or none), would block, or fails.
WrAll        == [k |-> "OkAll"]
WrShort      == [k |-> "OkShort"]
WrZero       == [k |-> "OkZero"]
WrWouldBlock == [k |-> "WouldBlock"]
WrError      == [k |-> "Err"]
WriteEnds    == {WrAll, WrZero, WrWouldBlock, WrError}
WriteScripts == {<<e>> : e \in WriteEnds} \cup {<<WrShort, e>> : e \in WriteEnds}

-----------------------------------------------------------------------------
(* RequestContext (main.rs 23-81) *)

RequestContext_new == [write_buffer |-> <<>>]

ReadSome(request) == [kind |-> "Some", request |-> request]
ReadNone          == [kind |-> "None", request |-> <<>>]
ReadErr           == [kind |-> "Err", request |-> <<>>]

RECURSIVE handle_read_loop(_, _)
handle_read_loop(script, total_data) ==
    IF script = <<>> THEN ReadSome(total_data)       \* no more returns: would block
    ELSE LET r == Head(script) IN
         CASE r.k = "Ok" /\ Len(r.data) = 0 -> ReadNone
           [] r.k = "Ok" /\ Len(r.data) > 0 ->
                IF Len(r.data) < BufferLen THEN ReadSome(total_data \o r.data)
                ELSE handle_read_loop(Tail(script), total_data \o r.data)
           [] r.k = "WouldBlock" -> ReadSome(total_data)
           [] OTHER -> ReadErr

handle_read(script) == handle_read_loop(script, <<>>)

\* a dispatch_write that puts the response in front of the pending bytes
dispatch_write_front(ctx, response) ==
    [ctx EXCEPT !.write_buffer = response \o @]

dispatch_write(ctx, response) ==
    [ctx EXCEPT !.write_buffer = @ \o response]

\* what remains of the buffer after write_buffer.drain(0..n)
drain(write_buffer, n) == SubSeq(write_buffer, n + 1, Len(write_buffer))

\* The loop of write_to_socket; written collects what the socket accepted.
RECURSIVE write_to_socket_loop(_, _, _)
write_to_socket_loop(write_buffer, script, written) ==
    IF write_buffer = <<>> \/ script = <<>>
    THEN [kind |-> "Ok", write_buffer |-> write_buffer, written |-> written]
    ELSE LET r == Head(script)
             n == CASE r.k = "OkAll"   -> Len(write_buffer)
                    [] r.k = "OkShort" -> Min(ShortWrite, Len(write_buffer))
                    [] OTHER           -> 0
         IN CASE r.k \in {"OkZero", "WouldBlock"} ->
                   [kind |-> "Ok", write_buffer |-> write_buffer, written |-> written]
              [] r.k = "Err" ->
                   [kind |-> "Err", write_buffer |-> write_buffer, written |-> written]
              [] OTHER ->
                   write_to_socket_loop(drain(write_buffer, n), Tail(script),
                                        written \o SubSeq(write_buffer, 1, n))

write_to_socket(ctx, script) == write_to_socket_loop(ctx.write_buffer, script, <<>>)

-----------------------------------------------------------------------------
(* kqueue (main.rs 83-156) *)

listener_fd == 0
FDs == 1..MaxConnects
EVFILT_READ  == "EVFILT_READ"
EVFILT_WRITE == "EVFILT_WRITE"

\* update_kqueue: kevent_ok is whether the kernel carries the change out;
\* EV_DELETE of an event that is not registered fails (ENOENT).
update_kqueue(k, fd, interest, action, kevent_ok) ==
    CASE action = "Register" ->
           IF kevent_ok THEN [ok |-> TRUE, kq |-> k \cup {<<fd, interest>>}]
           ELSE [ok |-> FALSE, kq |-> k]
      [] action = "Unregister" ->
           IF kevent_ok /\ <<fd, interest>> \in k
           THEN [ok |-> TRUE, kq |-> k \ {<<fd, interest>>}]
           ELSE [ok |-> FALSE, kq |-> k]

\* Dropping a RequestContext drops its TcpStream, which closes the
\* descriptor; the kernel then deletes every kevent that names it.
close_stream(k, fd) == {e \in k : e[1] # fd}

\* the batches get_kqueue_events may return: registered events, none twice
Batches(k) ==
    {b \in UNION {[1..n -> k] : n \in 1..MaxBatch} :
        \A i, j \in 1..Len(b) : i # j => b[i] # b[j]}

-----------------------------------------------------------------------------
(* The reactor: main (main.rs 174-272) *)


\* the connection table without fd: HashMap::remove
Without(f, fd) == [x \in (DOMAIN f) \ {fd} |-> f[x]]
\* the connection table with fd bound to v: HashMap::insert
With(f, fd, v) == [x \in (DOMAIN f) \cup {fd} |-> IF x = fd THEN v ELSE f[x]]

\* accept hands out the lowest descriptor that is not open
LowestFree == CHOOSE f \in FDs \ DOMAIN streams_map :
                  \A g \in FDs \ DOMAIN streams_map : f <= g

\* A panic on the reactor thread ends the process: its table, its kqueue,
\* its sockets and the listener go with it.
Crash ==
    /\ crashed' = TRUE
    /\ streams_map' = [x \in {} |-> RequestContext_new]
    /\ kq' = {}
    /\ events' = <<>>
    /\ backlog' = 0
    /\ log' = "panicked"
    /\ replies' = [x \in {} |-> <<>>]
    /\ sent' = [x \in {} |-> <<>>]
    /\ fragment' = [x \in {} |-> FALSE]

ReactorInit ==
    /\ streams_map = [x \in {} |-> RequestContext_new]
    /\ kq = {<<listener_fd, EVFILT_READ>>}
    /\ events = <<>>
    /\ backlog = 0
    /\ crashed = FALSE
    /\ log = "started"
    /\ replies = [x \in {} |-> <<>>]
    /\ sent = [x \in {} |-> <<>>]
    /\ fragment = [x \in {} |-> FALSE]
    /\ nconn = 0
    /\ nreq = 0

\* a peer connects: the kernel queues the connection on the listener
ClientConnect ==
    /\ UNCHANGED notReactor
    /\ ~crashed
    /\ nconn < MaxConnects
    /\ backlog' = backlog + 1
    /\ nconn' = nconn + 1
    /\ UNCHANGED <<streams_map, kq, events, crashed, log, replies, sent, fragment, nreq>>

\* main.rs 191-194: the loop head, once the previous batch is dispatched
GetEvents ==
    /\ UNCHANGED notReactor
    /\ ~crashed
    /\ events = <<>>
    /\ \E b \in Batches(kq) : events' = b
    /\ log' = "Got events"
    /\ UNCHANGED <<streams_map, kq, backlog, crashed, replies, sent, fragment, nconn, nreq>>

\* the event the for loop is at
Dispatching(ident, filter) ==
    /\ ~crashed
    /\ events # <<>>
    /\ Head(events) = <<ident, filter>>

\* main.rs 196-217: one accept per listener event
AcceptEvent(result, kevent_ok) ==
    /\ UNCHANGED notReactor
    /\ \E filter \in {EVFILT_READ, EVFILT_WRITE} : Dispatching(listener_fd, filter)
    /\ UNCHANGED <<nconn, nreq>>
    /\ \/ /\ result = "Ok"
          /\ backlog > 0
          /\ LET fd == LowestFree
                 u == update_kqueue(kq, fd, EVFILT_READ, "Register", kevent_ok)
             IN IF u.ok
                THEN /\ streams_map' = With(streams_map, fd, RequestContext_new)
                     /\ replies' = With(replies, fd, <<>>)
                     /\ sent' = With(sent, fd, <<>>)
                     /\ fragment' = With(fragment, fd, FALSE)
                     /\ kq' = u.kq
                     /\ backlog' = backlog - 1
                     /\ events' = Tail(events)
                     /\ UNCHANGED <<crashed, log>>
                ELSE Crash                  \* .expect("Failed to register stream")
       \/ /\ result = "WouldBlock"
          /\ backlog = 0
          /\ events' = Tail(events)
          /\ UNCHANGED <<streams_map, kq, backlog, crashed, log, replies, sent, fragment>>
       \/ /\ result = "Err"
          /\ events' = Tail(events)
          /\ log' = "Failed to accept connection"
          /\ UNCHANGED <<streams_map, kq, backlog, crashed, replies, sent, fragment>>

\* main.rs 224-234: handle_read returned Ok(Some(request)), and
\* handle_request this response
OnRequest(fd, request, response, kevent_ok) ==
    IF response.panic
    THEN Crash                              \* the panic unwinds main
    ELSE IF ~update_kqueue(kq, fd, EVFILT_WRITE, "Register", kevent_ok).ok
    THEN Crash                              \* .expect("Failed to register stream")
    ELSE /\ streams_map' = [streams_map EXCEPT ![fd] = dispatch_write(@, response.bytes)]
         /\ replies' = [replies EXCEPT ![fd] = @ \o response.bytes]
         /\ kq' = update_kqueue(kq, fd, EVFILT_WRITE, "Register", kevent_ok).kq
         /\ events' = Tail(events)
         /\ fragment' = [fragment EXCEPT ![fd] = request = ReqPingHead]
         /\ UNCHANGED <<backlog, crashed, log, sent>>

\* an Ok(None) arm that logs the disconnect and forgets streams_map.remove
OnDisconnect_kept(fd) ==
    /\ log' = "Client disconnected"
    /\ events' = Tail(events)
    /\ UNCHANGED <<streams_map, kq, backlog, crashed, replies, sent, fragment>>

\* main.rs 235-238: handle_read returned Ok(None)
OnDisconnect(fd) ==
    /\ log' = "Client disconnected"
    /\ streams_map' = Without(streams_map, fd)
    /\ kq' = close_stream(kq, fd)
    /\ replies' = Without(replies, fd)
    /\ sent' = Without(sent, fd)
    /\ fragment' = Without(fragment, fd)
    /\ events' = Tail(events)
    /\ UNCHANGED <<backlog, crashed>>

\* main.rs 239-241: handle_read returned Err
OnReadError(fd) ==
    /\ log' = "Failed to read from stream"
    /\ events' = Tail(events)
    /\ UNCHANGED <<streams_map, kq, backlog, crashed, replies, sent, fragment>>

\* the match on handle_read's result (main.rs 223-242)
OnRead(fd, r, kevent_ok) ==
    /\ r.kind = "Some" => nreq < MaxRequests
    /\ nreq' = IF r.kind = "Some" THEN nreq + 1 ELSE nreq
    /\ \/ r.kind = "Some" /\ OnRequest(fd, r.request, handle_request(r.request), kevent_ok)
       \/ r.kind = "None" /\ OnDisconnect(fd)
       \/ r.kind = "Err" /\ OnReadError(fd)

\* main.rs 223-242: EVFILT_READ on a known descriptor
ReadEvent(fd, script, kevent_ok) ==
    /\ UNCHANGED notReactor
    /\ Dispatching(fd, EVFILT_READ)
    /\ fd \in DOMAIN streams_map
    /\ UNCHANGED nconn
    /\ OnRead(fd, handle_read(script), kevent_ok)

\* the match on write_to_socket's result r (main.rs 243-256)
OnWrite(fd, r, kevent_ok) ==
    /\ streams_map' = [streams_map EXCEPT ![fd].write_buffer = r.write_buffer]
    /\ sent' = [sent EXCEPT ![fd] = @ \o r.written]
    /\ \/ /\ r.kind = "Ok"
          /\ kq' = update_kqueue(kq, fd, EVFILT_WRITE, "Unregister", kevent_ok).kq
          /\ log' = IF update_kqueue(kq, fd, EVFILT_WRITE, "Unregister", kevent_ok).ok
                    THEN "Response sent"
                    ELSE "Failed to unregister write event"
       \/ /\ r.kind = "Err"
          /\ log' = "Failed to write to stream"
          /\ UNCHANGED kq

\* main.rs 243-256: EVFILT_WRITE on a known descriptor
WriteEvent(fd, script, kevent_ok) ==
    /\ UNCHANGED notReactor
    /\ Dispatching(fd, EVFILT_WRITE)
    /\ fd \in DOMAIN streams_map
    /\ events' = Tail(events)
    /\ OnWrite(fd, write_to_socket(streams_map[fd], script), kevent_ok)
    /\ UNCHANGED <<backlog, crashed, replies, fragment, nconn, nreq>>

\* main.rs 265-267: an event whose descriptor is not in the table
UnknownEvent(fd) ==
    /\ UNCHANGED notReactor
    /\ \E filter \in {EVFILT_READ, EVFILT_WRITE} : Dispatching(fd, filter)
    /\ fd # listener_fd
    /\ fd \notin DOMAIN streams_map
    /\ events' = Tail(events)
    /\ log' = "Got event for unknown file descriptor"
    /\ UNCHANGED <<streams_map, kq, backlog, crashed, replies, sent, fragment, nconn, nreq>>

ReactorNext ==
    \/ ClientConnect
    \/ GetEvents
    \/ \E result \in {"Ok", "WouldBlock", "Err"}, kevent_ok \in BOOLEAN :
           AcceptEvent(result, kevent_ok)
    \/ \E fd \in FDs, script \in ReadScripts, kevent_ok \in BOOLEAN :
           ReadEvent(fd, script, kevent_ok)
    \/ \E fd \in FDs, script \in WriteScripts, kevent_ok \in BOOLEAN :
           WriteEvent(fd, script, kevent_ok)
    \/ \E fd \in FDs : UnknownEvent(fd)

-----------------------------------------------------------------------------
(* The store (storage.rs) *)

TicksPerMs == 2       \* clock ticks in a millisecond: the clock is finer than 1 ms
MaxTime    == 6       \* ticks the clock runs for

Keys        == {"k1", "k2"}
StoreValues == {BulkString(<<"a">>), BulkString(<<"b">>)}
Expiries    == {NoExpiry, Expiry(0), Expiry(1), Expiry(2)}

\* Duration::as_millis: whole milliseconds, the rest cut off
as_millis(ticks) == ticks \div TicksPerMs
\* Duration::from_millis
from_millis(ms) == ms * TicksPerMs

DataValue(value, expiry, inserted_at) ==
    [value |-> value, expiry |-> expiry, inserted_at |-> inserted_at]

\* Option<&DataValue>
SomeData(d) == [some |-> TRUE, d |-> d]
NoData      == [some |-> FALSE]

\* a get whose expiry test is >= where the code has >
Storage_get_early(store, key, t) ==
    IF key \in DOMAIN store
    THEN LET d == store[key] IN
         IF d.expiry.some /\ as_millis(t - d.inserted_at) >= as_millis(d.expiry.dur)
         THEN NoData
         ELSE SomeData(d)
    ELSE NoData

\* Storage::get at clock reading t
Storage_get(store, key, t) ==
    IF key \in DOMAIN store
    THEN LET d == store[key] IN
         IF d.expiry.some /\ as_millis(t - d.inserted_at) > as_millis(d.expiry.dur)
         THEN NoData
         ELSE SomeData(d)
    ELSE NoData

\* a set that keeps the old entry's expiry when it is given none
Storage_set_merging(store, key, value, expiry, t) ==
    With(store, key,
         DataValue(value,
                   IF expiry.some
                   THEN [some |-> TRUE, dur |-> from_millis(expiry.ms)]
                   ELSE IF key \in DOMAIN store THEN store[key].expiry
                   ELSE [some |-> FALSE, dur |-> 0],
                   t))

\* Storage::set at clock reading t
Storage_set(store, key, value, expiry, t) ==
    With(store, key,
         DataValue(value,
                   IF expiry.some
                   THEN [some |-> TRUE, dur |-> from_millis(expiry.ms)]
                   ELSE [some |-> FALSE, dur |-> 0],
                   t))

NoGet == [valid |-> FALSE]

StoreInit ==
    /\ data = [x \in {} |-> 0]
    /\ now = 0
    /\ lastSet = [k \in Keys |-> [set |-> FALSE]]
    /\ got = NoGet

StoreSet(key, value, expiry) ==
    /\ UNCHANGED notStore
    /\ data' = Storage_set(data, key, value, expiry, now)
    /\ lastSet' = [lastSet EXCEPT ![key] =
                      [set |-> TRUE, value |-> value, expiry |-> expiry, at |-> now,
                       revived |-> key \in DOMAIN data
                                     /\ ~Storage_get(data, key, now).some]]
    /\ got' = NoGet
    /\ UNCHANGED now

\* a get that removes the entry it finds expired
StoreGet_evicting(key) ==
    /\ UNCHANGED notStore
    /\ got' = [valid |-> TRUE, key |-> key, at |-> now,
               res |-> Storage_get(data, key, now)]
    /\ data' = IF key \in DOMAIN data /\ ~Storage_get(data, key, now).some
               THEN Without(data, key)
               ELSE data
    /\ UNCHANGED <<now, lastSet>>

StoreGet(key) ==
    /\ UNCHANGED notStore
    /\ got' = [valid |-> TRUE, key |-> key, at |-> now,
               res |-> Storage_get(data, key, now)]
    /\ UNCHANGED <<data, now, lastSet>>

Tick ==
    /\ UNCHANGED notStore
    /\ now < MaxTime
    /\ now' = now + 1
    /\ got' = NoGet
    /\ UNCHANGED <<data, lastSet>>

StoreNext ==
    \/ \E key \in Keys, value \in StoreValues, expiry \in Expiries :
           StoreSet(key, value, expiry)
    \/ \E key \in Keys : StoreGet(key)
    \/ Tick

-----------------------------------------------------------------------------
(* Codec runs: a value is encoded, and the encoding parsed (resp.rs) *)

MaxArrayLen == 2      \* elements in a generated array

SeqsUpTo(S, n) == UNION {[1..m -> S] : m \in 0..n}

Strs == {<<>>, <<"a">>, <<"O", "K">>}
Scalars ==
    {SimpleString(s) : s \in Strs} \cup {Error(s) : s \in Strs}
      \cup {Integer(i) : i \in {-12, 0, 7}}
      \cup {BulkString(s) : s \in Strs}
      \cup {BulkStringNone, Boolean(TRUE), Boolean(FALSE), Null}
\* one value of every variant, and both nil forms
Leaves ==
    {SimpleString(<<"O", "K">>), Error(<<"a">>), Integer(7), BulkString(<<"a">>),
     BulkString(<<>>), BulkStringNone, ArrayNone, Boolean(TRUE), Null}
FlatArrays == {Array(a) : a \in SeqsUpTo(Leaves, MaxArrayLen)}
\* arrays of arrays, two and three levels deep
Inner == {Integer(7), Array(<<>>), Array(<<Integer(0)>>), Array(<<Array(<<>>)>>),
          Array(<<BulkString(<<"a">>), Integer(0)>>)}
NestedArrays == {Array(a) : a \in SeqsUpTo(Inner, MaxArrayLen)}
Values == Scalars \cup {ArrayNone} \cup FlatArrays \cup NestedArrays

\* nothing extracted yet, nothing replied yet
NoCommand == [kind |-> "None"]
NoReply   == [panic |-> FALSE, bytes |-> <<>>]

CodecInit ==
    /\ cval \in Values
    /\ cbuf = <<>>
    /\ cres = RNone
    /\ cpc = "value"
    /\ csrc = "none"
    /\ ccmd = NoCommand
    /\ creply = NoReply
    /\ overflow_checks = TRUE

Encode ==
    /\ UNCHANGED notCodec
    /\ cpc = "value"
    /\ cbuf' = to_resp_string(cval)
    /\ cpc' = "encoded"
    /\ csrc' = "encoding"
    /\ UNCHANGED <<cval, cres, ccmd, creply, overflow_checks>>

Decode ==
    /\ UNCHANGED notCodec
    /\ cpc = "encoded"
    /\ cres' = parse_resp(cbuf)
    /\ cpc' = "parsed"
    /\ UNCHANGED <<cval, cbuf, csrc, ccmd, creply, overflow_checks>>

CodecNext == Encode \/ Decode

-----------------------------------------------------------------------------
(* Request runs: a client's bytes are parsed, turned into a command and      *)
(* answered (resp.rs 243-350, main.rs 158-172)                               *)

MaxArgs == 3          \* arguments after the command name in a generated request

PingNames  == {B_PING, <<"p", "i", "n", "g">>, <<"P", "i", "N", "g">>}
EchoNames  == {B_ECHO, <<"e", "c", "h", "o">>}
GetNames   == {B_GET, <<"g", "E", "t">>}
SetNames   == {B_SET, <<"s", "e", "t">>}
OtherNames == {<<"F", "O", "O">>}
CommandNames == PingNames \cup EchoNames \cup GetNames \cup SetNames \cup OtherNames

\* the two string-like forms of s
StringLikes(s) == {SimpleString(s), BulkString(s)}
Heads     == UNION {StringLikes(n) : n \in CommandNames}
ArgValues == StringLikes(<<"m">>) \cup {Integer(7)}
\* a command name followed by up to MaxArgs arguments
CommandRequests ==
    {Array(<<h>> \o args) : h \in Heads, args \in SeqsUpTo(ArgValues, MaxArgs)}

\* values that are not a command: scalars, nil and empty arrays, and arrays
\* that do not start with a string
NonCommandHeads ==
    {Integer(7), BulkStringNone, ArrayNone, Error(B_PING), Array(<<BulkString(B_PING)>>)}
NonCommands ==
    {SimpleString(B_PING), BulkString(B_PING), Error(B_PING), Integer(7),
     BulkStringNone, Boolean(TRUE), Null, ArrayNone, Array(<<>>)}
      \cup {Array(<<h>> \o rest) : h \in NonCommandHeads,
                                   rest \in {<<>>, <<BulkString(<<"m">>)>>}}

\* the numbers given to EX and PX: small ones, the largest count of seconds
\* whose milliseconds fit a u64 and the next one, u64::MAX, and non-numbers
SecondsMax  == SubSeq(U64_MAX, 1, 17)
SecondsOver == SubSeq(U64_MAX, 1, 16) \o <<"2">>
OptionNumbers ==
    {<<"0">>, <<"5">>, <<"0", "0", "7">>, <<"5", "0", "0", "0">>, SecondsMax,
     SecondsMax \o <<"0", "0", "0">>, SecondsOver, U64_MAX, U64_MODULUS, <<"x">>}
OptionTokens == {B_EX, B_PX, <<"e", "x">>}
\* SET k v <token> <number>
SetOptionRequests ==
    {Array(<<BulkString(B_SET), BulkString(<<"k">>), BulkString(<<"v">>),
             BulkString(tok), BulkString(num)>>) :
        tok \in OptionTokens, num \in OptionNumbers}

\* SET k v followed by one or two (token, number) pairs, by a pair and a
\* token without its value, or by a token alone
PairTokens  == {B_EX, B_PX, <<"p", "x">>, <<"N", "X">>}
PairNumbers == {<<"5">>, <<"7">>, <<"x">>, SecondsOver}
OptionPairs ==
    {<<BulkString(tok), BulkString(num)>> : tok \in PairTokens, num \in PairNumbers}
OptionLists ==
    OptionPairs
      \cup {p \o q : p \in OptionPairs, q \in OptionPairs}
      \cup {p \o <<BulkString(tok)>> : p \in OptionPairs, tok \in PairTokens}
      \cup {<<BulkString(tok)>> : tok \in PairTokens}
SetPairRequests ==
    {Array(<<BulkString(B_SET), BulkString(<<"k">>), BulkString(<<"v">>)>> \o opts) :
        opts \in OptionLists}

RequestValues ==
    CommandRequests \cup NonCommands \cup SetOptionRequests \cup SetPairRequests

\* what may follow a value in the same read
Followers == {Array(<<BulkString(B_PING)>>), Integer(7)}

\* bytes that are not the encoding of a value
RawShortArray   == <<"*", "2", CR, LF, ":", "1", CR, LF>>
RawLongArray    == <<"*", "1", CR, LF, ":", "1", CR, LF, ":", "2", CR, LF>>
RawEmptyArrayAndMore == <<"*", "0", CR, LF, ":", "1", CR, LF>>
RawShortBulk    == <<"$", "5", CR, LF, "a", "b">>
RawShortBulkCrLf == <<"$", "5", CR, LF, "a", "b", CR, LF>>
RawLongBulk     == <<"$", "2", CR, LF, "a", "b", "c", "d", CR, LF>>
\* six bytes that start with 'P' and are not the inline PING, alone and
\* followed by an integer; an inline PING cut short; an unknown prefix
RawInlineOther        == <<"P", "O", "N", "G", CR, LF>>
RawInlineOtherAndMore == RawInlineOther \o <<":", "7", CR, LF>>
RawInlineShort        == <<"P", "I", "N">>
RawUnknownPrefix      == <<"x", CR, LF>>
RawBuffers ==
    {InlinePing, RawShortArray, RawLongArray, RawEmptyArrayAndMore,
     RawShortBulk, RawShortBulkCrLf, RawLongBulk,
     RawInlineOther, RawInlineOtherAndMore, RawInlineShort, RawUnknownPrefix,
     <<>>}

RequestInit ==
    /\ overflow_checks \in BOOLEAN
    /\ cres = RNone
    /\ ccmd = NoCommand
    /\ creply = NoReply
    /\ \/ /\ cval \in RequestValues
          /\ cbuf = <<>>
          /\ cpc = "value"
          /\ csrc = "none"
       \/ /\ cval = Null
          /\ cbuf \in RawBuffers
          /\ cpc = "encoded"
          /\ csrc = "raw"

\* the client sends the value and, in the same segment, a second one
EncodePipelined ==
    /\ UNCHANGED notCodec
    /\ cpc = "value"
    /\ \E next \in Followers : cbuf' = to_resp_string(cval) \o to_resp_string(next)
    /\ cpc' = "encoded"
    /\ csrc' = "pipelined"
    /\ UNCHANGED <<cval, cres, ccmd, creply, overflow_checks>>

Extract ==
    /\ UNCHANGED notCodec
    /\ cpc = "parsed"
    /\ ccmd' = extract_commands(cbuf)
    /\ cpc' = "extracted"
    /\ UNCHANGED <<cval, cbuf, cres, csrc, creply, overflow_checks>>

Reply ==
    /\ UNCHANGED notCodec
    /\ cpc = "extracted"
    /\ creply' = handle_request(cbuf)
    /\ cpc' = "replied"
    /\ UNCHANGED <<cval, cbuf, cres, csrc, ccmd, overflow_checks>>

RequestNext == Encode \/ EncodePipelined \/ Decode \/ Extract \/ Reply

-----------------------------------------------------------------------------
(* The worker pool (threadpool.rs) *)

ThreadCount == 2      \* the largest thread_count given to ThreadPool::new
MaxJobs     == 3      \* calls of execute in a run

Workers  == 0..(thread_count - 1)
JobIds   == 1..MaxJobs
JobKinds == {"returns", "panics"}

\* a worker thread that has not finished still holds its Arc of the Receiver
Running(pcs, w) == pcs[w] \notin {"exited", "panicked"}
\* the channel's Receiver exists while some Arc to it does
ReceiverAlive(pcs) == \E w \in Workers : Running(pcs, w)

\* ThreadPool::new(n): the state once every worker is spawned
ThreadPool_new(n) ==
    /\ thread_count = n
    /\ finished = <<>>
    /\ queue = <<>>
    /\ sender = TRUE
    /\ lock = {}
    /\ wpc = [w \in 0..(n - 1) |-> "lock"]
    /\ wjob = [w \in 0..(n - 1) |-> 0]
    /\ jobs = [j \in {} |-> 0]
    /\ runs = [j \in JobIds |-> 0]
    /\ completed = {}
    /\ owner = "live"
    /\ joined = 0

\* the pool the server would build, and a pool of any size from 1 (the
\* assert! of threadpool.rs 20) up
PoolInit    == ThreadPool_new(ThreadCount)
PoolInitAny == \E n \in 1..ThreadCount : ThreadPool_new(n)

\* a channel that hands out the newest job first
send_front(q, pcs, job) ==
    IF ReceiverAlive(pcs) THEN [ok |-> TRUE, queue |-> <<job>> \o q]
    ELSE [ok |-> FALSE, queue |-> q]

\* Sender::send: Err when the Receiver is gone, else the job is buffered
send(q, pcs, job) ==
    IF ReceiverAlive(pcs) THEN [ok |-> TRUE, queue |-> Append(q, job)]
    ELSE [ok |-> FALSE, queue |-> q]

\* ThreadPool::execute
Execute(kind) ==
    /\ UNCHANGED notPool
    /\ owner = "live"
    /\ Cardinality(DOMAIN jobs) < MaxJobs
    /\ LET job == Cardinality(DOMAIN jobs) + 1
           r == send(queue, wpc, job)
       IN /\ queue' = r.queue
          /\ jobs' = With(jobs, job, [kind |-> kind, accepted |-> r.ok])
    /\ UNCHANGED <<sender, lock, wpc, wjob, runs, completed, finished, thread_count, owner, joined>>

\* receiver.lock().unwrap()
WorkerLock(w) ==
    /\ UNCHANGED notPool
    /\ wpc[w] = "lock"
    /\ lock = {}
    /\ lock' = {w}
    /\ wpc' = [wpc EXCEPT ![w] = "recv"]
    /\ UNCHANGED <<queue, sender, wjob, jobs, runs, completed, finished, thread_count, owner, joined>>

\* .recv() returns Ok(job); the guard is dropped at the end of the statement
WorkerRecvJob(w) ==
    /\ UNCHANGED notPool
    /\ wpc[w] = "recv"
    /\ queue # <<>>
    /\ queue' = Tail(queue)
    /\ lock' = {}
    /\ wjob' = [wjob EXCEPT ![w] = Head(queue)]
    /\ runs' = [runs EXCEPT ![Head(queue)] = @ + 1]
    /\ wpc' = [wpc EXCEPT ![w] = "run"]
    /\ UNCHANGED <<sender, jobs, completed, finished, thread_count, owner, joined>>

\* .recv() returns Err: the channel is empty and the Sender is dropped
WorkerRecvClosed(w) ==
    /\ UNCHANGED notPool
    /\ wpc[w] = "recv"
    /\ queue = <<>>
    /\ ~sender
    /\ lock' = {}
    /\ wpc' = [wpc EXCEPT ![w] = "exited"]
    /\ UNCHANGED <<queue, sender, wjob, jobs, runs, completed, finished, thread_count, owner, joined>>

\* job() returns
WorkerFinish(w) ==
    /\ UNCHANGED notPool
    /\ wpc[w] = "run"
    /\ jobs[wjob[w]].kind = "returns"
    /\ completed' = completed \cup {wjob[w]}
    /\ finished' = Append(finished, wjob[w])
    /\ wpc' = [wpc EXCEPT ![w] = "lock"]
    /\ UNCHANGED <<queue, sender, lock, wjob, jobs, runs, thread_count, owner, joined>>

\* job() panics: the worker thread unwinds and ends.  The last thread to end
\* drops the Receiver, and with it the jobs still buffered in the channel.
WorkerPanic(w) ==
    /\ UNCHANGED notPool
    /\ wpc[w] = "run"
    /\ jobs[wjob[w]].kind = "panics"
    /\ wpc' = [wpc EXCEPT ![w] = "panicked"]
    /\ queue' = IF ReceiverAlive(wpc') THEN queue ELSE <<>>
    /\ UNCHANGED <<sender, lock, wjob, jobs, runs, completed, finished, thread_count, owner, joined>>

\* Drop for ThreadPool: drop(self.sender.take())
DropBegin ==
    /\ UNCHANGED notPool
    /\ owner = "live"
    /\ sender' = FALSE
    /\ owner' = "joining"
    /\ UNCHANGED <<queue, lock, wpc, wjob, jobs, runs, completed, finished, thread_count, joined>>

\* thread.join() returns Ok for the next worker; after the last one drop returns
DropJoin ==
    /\ UNCHANGED notPool
    /\ owner = "joining"
    /\ wpc[joined] = "exited"
    /\ joined' = joined + 1
    /\ owner' = IF joined + 1 = thread_count THEN "dropped" ELSE "joining"
    /\ UNCHANGED <<queue, sender, lock, wpc, wjob, jobs, runs, completed, finished, thread_count>>

\* thread.join() returns Err for a worker that panicked: unwrap() panics
DropJoinPanic ==
    /\ UNCHANGED notPool
    /\ owner = "joining"
    /\ wpc[joined] = "panicked"
    /\ owner' = "drop_panicked"
    /\ UNCHANGED <<queue, sender, lock, wpc, wjob, jobs, runs, completed, finished, thread_count, joined>>

PoolNext ==
    \/ \E kind \in JobKinds : Execute(kind)
    \/ \E w \in Workers : WorkerLock(w)
    \/ \E w \in Workers : WorkerRecvJob(w)
    \/ \E w \in Workers : WorkerRecvClosed(w)
    \/ \E w \in Workers : WorkerFinish(w)
    \/ \E w \in Workers : WorkerPanic(w)
    \/ DropBegin
    \/ DropJoin
    \/ DropJoinPanic

-----------------------------------------------------------------------------
(* Specifications: one per component, the other components at rest *)

CodecIdle ==
    /\ cval = Null
    /\ cbuf = <<>>
    /\ cres = RNone
    /\ cpc = "value"
    /\ csrc = "none"
    /\ ccmd = NoCommand
    /\ creply = NoReply
    /\ overflow_checks = TRUE

Init      == ReactorInit /\ StoreInit /\ CodecIdle /\ PoolInit
InitCodec == ReactorInit /\ StoreInit /\ CodecInit /\ PoolInit
InitRequests == ReactorInit /\ StoreInit /\ RequestInit /\ PoolInit
InitPool  == ReactorInit /\ StoreInit /\ CodecIdle /\ PoolInitAny

SpecReactor == Init /\ [][ReactorNext]_vars
SpecStore   == Init /\ [][StoreNext]_vars
SpecCodec   == InitCodec /\ [][CodecNext]_vars
SpecRequests == InitRequests /\ [][RequestNext]_vars
SpecPool    == InitPool /\ [][PoolNext]_vars

-----------------------------------------------------------------------------
(* Properties *)

IsPrefix(a, b) == Len(a) <= Len(b) /\ SubSeq(b, 1, Len(a)) = a
IsSuffix(a, b) == Len(a) <= Len(b) /\ SubSeq(b, Len(b) - Len(a) + 1, Len(b)) = a
\* what a step appended to a buffer
Added(old, new) == SubSeq(new, Len(old) + 1, Len(new))
\* the replies in a byte stream: every reply of the server ends with one LF
NumReplies(bs) == Cardinality({i \in 1..Len(bs) : bs[i] = LF})
Registered(k, fd) == \E e \in k : e[1] = fd

\* the step is the dispatch of a read event on fd whose read calls return script
ReadStep(fd, script) == \E kevent_ok \in BOOLEAN : ReadEvent(fd, script, kevent_ok)
\* the same, with the kernel carrying out every kqueue change
ReadStepOk(fd, script) == ReadEvent(fd, script, TRUE)
WriteStep(fd, script) == \E kevent_ok \in BOOLEAN : WriteEvent(fd, script, kevent_ok)

\* C1: when a write event is handled and bytes remain in the write buffer
\* afterwards, the connection is still registered for write-readiness and the
\* remainder is the unwritten tail of the buffer; write interest is
\* deregistered only when the write buffer is empty.
C1_PartialWriteStaysRegistered ==
    [][\A fd \in FDs, script \in WriteScripts :
          (WriteStep(fd, script) /\ <<fd, EVFILT_WRITE>> \in kq) =>
              /\ streams_map'[fd].write_buffer # <<>> =>
                    /\ <<fd, EVFILT_WRITE>> \in kq'
                    /\ IsSuffix(streams_map'[fd].write_buffer, streams_map[fd].write_buffer)
              /\ <<fd, EVFILT_WRITE>> \notin kq' => streams_map'[fd].write_buffer = <<>>]_vars

ZeroReadScripts == {script \in ReadScripts : script[Len(script)] = IoOk(<<>>)}

\* C2: a zero-length read on a connection removes it from the connection
\* table and leaves no readiness interest registered for its descriptor; an
\* event for a descriptor that is not in the table is only logged as unknown:
\* it changes nothing else and does not crash the reactor.
C2_ZeroReadRemoves ==
    [][\A fd \in FDs :
          /\ (\E script \in ZeroReadScripts : ReadStep(fd, script)) =>
                /\ fd \notin DOMAIN streams_map'
                /\ ~Registered(kq', fd)
                /\ ~crashed'
          /\ (/\ \E filter \in {EVFILT_READ, EVFILT_WRITE} : Dispatching(fd, filter)
              /\ fd \notin DOMAIN streams_map
              /\ events' # events) =>
                /\ log' = "Got event for unknown file descriptor"
                /\ UNCHANGED <<streams_map, kq, backlog, crashed, replies, sent>>]_vars

\* C2 witness: an event for a descriptor that a zero-length read removed from
\* the table earlier in the same batch has been handled.
C2_Witness ==
    /\ log = "Got event for unknown file descriptor"
    /\ ~crashed

ErrPrefix == <<"-", "E", "R", "R">>

\* C3: a read event that delivers a malformed request appends exactly one
\* error reply, starting with -ERR, to the connection's write buffer; the
\* connection stays in the table and the process keeps running; and a valid
\* PING request read afterwards gets its normal reply.
C3_MalformedGetsErrorReply ==
    [][\A fd \in FDs :
          /\ \A m \in MalformedRequests :
                ReadStepOk(fd, <<IoOk(m)>>) =>
                   /\ ~crashed'
                   /\ fd \in DOMAIN streams_map'
                   /\ IsPrefix(streams_map[fd].write_buffer, streams_map'[fd].write_buffer)
                   /\ IsPrefix(ErrPrefix, Added(streams_map[fd].write_buffer,
                                                streams_map'[fd].write_buffer))
                   /\ NumReplies(Added(streams_map[fd].write_buffer,
                                       streams_map'[fd].write_buffer)) = 1
          /\ ReadStepOk(fd, <<IoOk(ReqPing)>>) =>
                /\ ~crashed'
                /\ Added(streams_map[fd].write_buffer, streams_map'[fd].write_buffer)
                     = to_resp_string(SimpleString(B_PONG))]_vars

\* C4: on every open connection the bytes the socket has accepted, followed by
\* the bytes still in the write buffer, are exactly the replies to the
\* connection's requests in receipt order; so the bytes written are always a
\* prefix of that reply stream, none reordered, duplicated or dropped.
C4_ResponseOrder ==
    \A fd \in DOMAIN streams_map :
        /\ IsPrefix(sent[fd], replies[fd])
        /\ sent[fd] \o streams_map[fd].write_buffer = replies[fd]

\* C4 witness: a connection with two replies, part of them written and part
\* still in the write buffer.
C4_Witness ==
    \E fd \in DOMAIN streams_map :
        /\ NumReplies(replies[fd]) >= 2
        /\ sent[fd] # <<>>
        /\ streams_map[fd].write_buffer # <<>>
        /\ streams_map[fd].write_buffer # replies[fd]

\* C5: when a socket read or write fails with an error other than would-block,
\* the connection is closed: it leaves the connection table and no readiness
\* interest stays registered for it.
C5_IoErrorTearsDown ==
    [][\A fd \in FDs :
          (\/ ReadStep(fd, <<IoError>>)
           \/ (WriteStep(fd, <<WrError>>) /\ streams_map[fd].write_buffer # <<>>)) =>
              /\ fd \notin DOMAIN streams_map'
              /\ ~Registered(kq', fd)]_vars

\* C6: a get of a key returns the value of the key's last set exactly while the
\* whole milliseconds elapsed since that set do not exceed its expiry, and
\* nothing once they do; with no expiry it always returns the value.
C6_ExpirySemantics ==
    (got.valid /\ lastSet[got.key].set) =>
        LET ls == lastSet[got.key]
            elapsed_ms == as_millis(got.at - ls.at)
        IN /\ got.res.some => got.res.d.value = ls.value
           /\ got.res.some <=> (~ls.expiry.some \/ elapsed_ms <= ls.expiry.ms)

\* C6 witness: a get returned absent for a key that was set with an expiry
\* and never deleted.
C6_Witness ==
    /\ got.valid
    /\ lastSet[got.key].set
    /\ lastSet[got.key].expiry.some
    /\ ~got.res.some
    /\ got.key \in DOMAIN data

\* C7: a well-formed SET k v request is answered with a non-error reply, and a
\* well-formed GET k request is answered with a bulk string (the stored value
\* or nil), never with an error.
C7_GetSetServed ==
    [][\A fd \in FDs :
          /\ ReadStepOk(fd, <<IoOk(ReqSet)>>) =>
                /\ ~crashed'
                /\ Added(streams_map[fd].write_buffer, streams_map'[fd].write_buffer)[1] # "-"
          /\ ReadStepOk(fd, <<IoOk(ReqGet)>>) =>
                /\ ~crashed'
                /\ Added(streams_map[fd].write_buffer, streams_map'[fd].write_buffer)[1] = "$"]_vars

\* C8: parsing the encoding of any RedisValue returns Ok(Some) of that value.
C8_RoundTrip ==
    cpc = "parsed" => cres = ROk(cval)

Accepted == {j \in DOMAIN jobs : jobs[j].accepted}
InQueue(j) == \E i \in 1..Len(queue) : queue[i] = j

\* C9: the pool has exactly thread_count workers, and every job execute
\* accepted is run exactly once: it is started at most once, and until it is
\* started it stays in the queue (it is never lost).
C9_EveryJobRunsOnce ==
    /\ Cardinality(DOMAIN wpc) = thread_count
    /\ \A j \in Accepted :
          /\ runs[j] <= 1
          /\ runs[j] = 0 => InQueue(j)

\* C10: a worker ends only when the queue is closed and empty; drop returns
\* only after every worker has ended and every job submitted before it has
\* completed; and drop ends by returning.
C10_GracefulDrain ==
    /\ \A w \in Workers : ~Running(wpc, w) => (~sender /\ queue = <<>>)
    /\ owner = "dropped" =>
          /\ \A w \in Workers : ~Running(wpc, w)
          /\ \A j \in DOMAIN jobs : j \in completed
    /\ owner # "drop_panicked"

\* C11: a job that panics takes down only the worker that ran it: no other
\* worker ends because of it, execute keeps accepting jobs while the pool is
\* live, and the pool's drop does not panic.
C11_JobFailureIsolated ==
    /\ \A w \in Workers : wpc[w] = "panicked" => jobs[wjob[w]].kind = "panics"
    /\ owner = "live" => \A j \in DOMAIN jobs : jobs[j].accepted
    /\ owner # "drop_panicked"

\* C12: handling an event for connection a leaves every other connection b as
\* it was: b stays in the connection table, b's write buffer and b's readiness
\* registrations are unchanged, and the reactor is still running to serve b.
C12_OtherConnectionsUntouched ==
    [][\A a \in DOMAIN streams_map :
          (/\ \E filter \in {EVFILT_READ, EVFILT_WRITE} : Dispatching(a, filter)
           /\ events' # events) =>
              \A b \in (DOMAIN streams_map) \ {a} :
                  /\ ~crashed'
                  /\ b \in DOMAIN streams_map'
                  /\ streams_map'[b] = streams_map[b]
                  /\ \A filter \in {EVFILT_READ, EVFILT_WRITE} :
                         <<b, filter>> \in kq <=> <<b, filter>> \in kq']_vars

\* the run has called extract_commands on the encoding of a command request
Extracted == cpc \in {"extracted", "replied"}
ExtractedRequest == Extracted /\ csrc = "encoding" /\ cval \in CommandRequests
NameOf(v) == v.a[1].s
ArgsOf(v) == Tail(v.a)
AllStringLike(args) == \A i \in 1..Len(args) : args[i].t \in {"SimpleString", "BulkString"}
Returned(c) == ccmd.kind = "Ok" /\ ccmd.cmd.c = c
Rejected == ccmd.kind = "Err"

\* the arity rules PING, ECHO and GET share with every reading of the claim
ArityOfPingEchoGet ==
    LET name == NameOf(cval)
        n == Len(ArgsOf(cval))
        strs == AllStringLike(ArgsOf(cval))
    IN /\ name \in PingNames =>
             /\ n >= 2 => Rejected
             /\ (n <= 1 /\ strs) => Returned("PING")
       /\ name \in EchoNames =>
             /\ n # 1 => Rejected
             /\ (n = 1 /\ strs) => Returned("ECHO")
       /\ name \in GetNames =>
             /\ n # 1 => Rejected
             /\ (n = 1 /\ strs) => Returned("GET")

IsCommandShape(r) ==
    /\ r.some
    /\ r.v.t = "Array"
    /\ r.v.a # <<>>
    /\ r.v.a[1].t \in {"SimpleString", "BulkString"}

\* C14: when the parsed top-level value is not a non-empty array whose first
\* element is a SimpleString or a non-nil BulkString, extract_commands
\* returns an error value: it returns no command and it does not abort.
C14_NonCommandsRejected ==
    (Extracted /\ cres.kind = "Ok" /\ ~IsCommandShape(cres)) => ccmd.kind = "Err"

\* the run has called extract_commands on the encoding of SET k v <token> <number>
ExtractedSetOption == Extracted /\ csrc = "encoding" /\ cval \in SetOptionRequests
\* a number str::parse::<u64> accepts: digits only, not above u64::MAX
AcceptedU64(num) == AllDigits(num) /\ ~DecLess(U64_MAX, StripZeros(num))

\* C15: for every number n the option parser accepts, SET k v EX n yields
\* the expiry n * 1000 exactly (the expiry of SET k v PX n*1000), neither
\* wrapped around nor aborted, and SET k v PX m yields the expiry m.
C15_ExactConversion ==
    (ExtractedSetOption /\ AcceptedU64(cval.a[5].s)) =>
        /\ ccmd.kind = "Ok"
        /\ ccmd.cmd.c = "SET"
        /\ ccmd.cmd.expiry =
              SomeU64(IF cval.a[4].s = B_PX THEN StripZeros(cval.a[5].s)
                      ELSE Times1000(StripZeros(cval.a[5].s)))

\* the run has answered the encoding of a command request
RepliedRequest == cpc = "replied" /\ csrc = "encoding" /\ cval \in CommandRequests
PongReply == <<"+", "P", "O", "N", "G", CR, LF>>
\* the argument m of the generated requests, as a bulk string
BulkReply == <<"$", "1", CR, LF, "m", CR, LF>>

\* C16: the reply to PING without argument is +PONG; the reply to PING m and
\* to ECHO m, for m a SimpleString or a BulkString, is m as a bulk string;
\* the command name is matched in upper, lower and mixed case; and the
\* inline bytes PING CR LF get the reply of the array form of PING.
C16_PingEchoReplies ==
    /\ RepliedRequest =>
          LET name == NameOf(cval)
              args == ArgsOf(cval)
          IN /\ (name \in PingNames /\ args = <<>>) =>
                    creply = [panic |-> FALSE, bytes |-> PongReply]
             /\ (name \in PingNames \cup EchoNames /\ Len(args) = 1 /\ AllStringLike(args)) =>
                    creply = [panic |-> FALSE, bytes |-> BulkReply]
    /\ (cpc = "replied" /\ csrc = "raw" /\ cbuf = InlinePing) =>
          creply = [panic |-> FALSE, bytes |-> PongReply]

\* C16 witness: a PING in mixed case with an argument has been answered.
C16_Witness ==
    /\ RepliedRequest
    /\ NameOf(cval) = <<"P", "i", "N", "g">>
    /\ ArgsOf(cval) = <<SimpleString(<<"m">>)>>
    /\ creply.bytes = BulkReply

\* C17: a get leaves the whole store as it was: no entry is removed (an
\* expired one included) and no entry's value, expiry or inserted_at changes;
\* and a get that follows a get of the same key at the same time returns the
\* same result.
C17_GetIsPureRead ==
    [][\A key \in Keys :
          StoreGet(key) =>
              /\ data' = data
              /\ (got.valid /\ got.key = key /\ got.at = now) => got'.res = got.res]_vars

\* C17 witness: a get has found an entry expired, and the entry is still
\* in the store.
C17_Witness ==
    /\ got.valid
    /\ ~got.res.some
    /\ got.key \in DOMAIN data
    /\ data[got.key].expiry.some
    /\ as_millis(now - data[got.key].inserted_at) > as_millis(data[got.key].expiry.dur)

\* C18: a set replaces the key's entry by the value and expiry it is given,
\* inserted now, and leaves the entry of every other key as it was; and a
\* get returns what the key's most recent set alone determines: its value
\* while its expiry, counted from that set, has not passed (always, when it
\* has none), whatever the entry it replaced.
C18_SetReplaces ==
    [][/\ \A key \in Keys, value \in StoreValues, expiry \in Expiries :
             StoreSet(key, value, expiry) =>
                 /\ DOMAIN data' = DOMAIN data \cup {key}
                 /\ \A other \in (DOMAIN data) \ {key} : data'[other] = data[other]
                 /\ data'[key].value = value
                 /\ data'[key].inserted_at = now
                 /\ data'[key].expiry.some = expiry.some
                 /\ expiry.some => data'[key].expiry.dur = from_millis(expiry.ms)
       /\ \A key \in Keys :
             (StoreGet(key) /\ lastSet[key].set) =>
                 LET ls == lastSet[key] IN
                 IF ~ls.expiry.some \/ as_millis(now - ls.at) <= ls.expiry.ms
                 THEN got'.res.some /\ got'.res.d.value = ls.value
                 ELSE ~got'.res.some]_vars

\* C18 witness: a key whose entry had expired was set again without expiry,
\* and a later get returned the new value.
C18_Witness ==
    /\ got.valid
    /\ lastSet[got.key].set
    /\ lastSet[got.key].revived
    /\ ~lastSet[got.key].expiry.some
    /\ got.at > lastSet[got.key].at
    /\ got.res.some
    /\ got.res.d.value = lastSet[got.key].value

\* the run has called parse_resp on cbuf
Parsed == cpc \in {"parsed", "extracted", "replied"}
\* the number in the header of a frame: the bytes between the prefix and the
\* first CR
FirstCR(buf) == CHOOSE i \in 1..Len(buf) : buf[i] = CR /\ \A j \in 1..(i - 1) : buf[j] # CR
HeaderDigits(buf) == SubSeq(buf, 2, FirstCR(buf) - 1)
HasCount(buf, prefix) ==
    /\ buf # <<>>
    /\ buf[1] = prefix
    /\ \E i \in 1..Len(buf) : buf[i] = CR
    /\ AllDigits(HeaderDigits(buf))

\* C19: an array whose header count is n parses to an array of exactly n
\* elements and a bulk string whose header length is L to exactly L bytes;
\* a buffer with fewer elements or bytes than its header promises makes
\* parse_resp fail instead of returning a shorter value.
C19_LengthHeadersHonoured ==
    Parsed =>
        /\ (HasCount(cbuf, "*") /\ cres.kind = "Ok") =>
              /\ cres.some
              /\ cres.v.t = "Array"
              /\ Len(cres.v.a) = DigitsValue(HeaderDigits(cbuf))
        /\ (HasCount(cbuf, "$") /\ cres.kind = "Ok") =>
              /\ cres.some
              /\ cres.v.t = "BulkString"
              /\ Len(cres.v.s) = DigitsValue(HeaderDigits(cbuf))
        /\ cbuf \in {RawShortArray, RawShortBulk, RawShortBulkCrLf} => cres.kind = "Err"

\* C20: for a buffer that is the encoding of a value followed by further
\* bytes, parse_resp returns exactly that value.
C20_OneValuePerParse ==
    (Parsed /\ csrc = "pipelined") => cres = ROk(cval)

\* the leading bytes parse_resp dispatches on (resp.rs 198-222)
RecognizedPrefixes == {"+", "-", ":", "$", "*", "#", "_", "P"}
Recognized(buf) == buf # <<>> /\ buf[1] \in RecognizedPrefixes
\* v is the value that starts at the first byte of buf
StartsAtFirstByte(buf, v) ==
    LET b == buf[1] IN
    CASE b = "+" -> v.t = "SimpleString" /\ IsPrefix(<<"+">> \o v.s, buf)
      [] b = "-" -> v.t = "Error" /\ IsPrefix(<<"-">> \o v.s, buf)
      [] b = ":" -> v.t = "Integer"
      [] b = "$" -> v.t \in {"BulkString", "BulkStringNone"}
      [] b = "*" -> v.t \in {"Array", "ArrayNone"}
      [] b = "#" -> v.t = "Boolean"
      [] b = "_" -> v = Null
      [] b = "P" -> /\ IsPrefix(InlinePing, buf)
                    /\ v = Array(<<SimpleString(B_PING)>>)
      [] OTHER   -> FALSE

\* C21: parse_resp returns Ok(None) exactly when the leading byte of the
\* buffer is not a recognized prefix; for a recognized prefix it returns
\* an error or Ok(Some(v)) for the value v that starts at that byte, never
\* Ok(None) and never a value read from a later position.
C21_NoneOnlyForUnknownPrefix ==
    Parsed =>
        /\ (cres = RNone) <=> ~Recognized(cbuf)
        /\ Recognized(cbuf) =>
              /\ cres.kind \in {"Ok", "Err"}
              /\ cres.kind = "Ok" => cres.some /\ StartsAtFirstByte(cbuf, cres.v)

\* the run has called extract_commands on the encoding of SET k v <options>
ExtractedSetPairs == Extracted /\ csrc = "encoding" /\ cval \in SetPairRequests
OptionsOf(v) == SubSeq(v.a, 4, Len(v.a))
IsOptionToken(tok) == to_uppercase(tok) \in {B_EX, B_PX}
\* every argument after key and value belongs to a (token, value) pair of a
\* recognized token and a number
AllPairsValid(opts) ==
    /\ Len(opts) % 2 = 0
    /\ \A i \in 1..Len(opts) :
          i % 2 = 1 => IsOptionToken(opts[i].s) /\ AcceptedU64(opts[i + 1].s)
\* the expiry the pair (tok, num) asks for, in milliseconds
PairExpiry(tok, num) ==
    SomeU64(IF to_uppercase(tok) = B_PX THEN StripZeros(num)
            ELSE Times1000(StripZeros(num)))

\* C22: the arguments after key and value are consumed as (token, value)
\* pairs; when every pair is EX or PX with a number, the SET command carries
\* the expiry of the last pair; an unrecognized token, an EX or PX without a
\* following value, or a non-numeric value makes extract_commands return an
\* error and no SET command.
C22_SetOptionPairs ==
    ExtractedSetPairs =>
        LET opts == OptionsOf(cval) IN
        /\ AllPairsValid(opts) =>
              /\ Returned("SET")
              /\ ccmd.cmd.expiry = PairExpiry(opts[Len(opts) - 1].s, opts[Len(opts)].s)
        /\ ~AllPairsValid(opts) => Rejected

\* s lists numbers in increasing order
Increasing(s) == \A a, b \in 1..Len(s) : a < b => s[a] < s[b]

\* C23: jobs leave the queue in submission order (job ids count the calls of
\* execute): the queue holds them oldest first and a job is started only
\* when every job accepted before it has been started; a pool of one worker
\* starts a job only after every earlier job has returned, so its jobs
\* return in submission order.
C23_PoolOrdering ==
    /\ Increasing(queue)
    /\ \A i, j \in DOMAIN jobs :
          (i < j /\ jobs[i].accepted /\ runs[j] >= 1) => runs[i] >= 1
    /\ thread_count = 1 =>
          /\ Increasing(finished)
          /\ \A i, j \in DOMAIN jobs : (i < j /\ runs[j] >= 1) => i \in completed

\* C23 witness: with two workers both completion orders of two jobs
\* submitted back-to-back have happened: job 2 returned before job 1, and
\* job 2 returned before job 3.
C23_Witness ==
    /\ thread_count = 2
    /\ finished = <<2, 1, 3>>

\* the job a call of execute in this step submitted
Submitted == CHOOSE j \in DOMAIN jobs' : j \notin DOMAIN jobs

\* C24: while the pool has not begun its drop, whatever has become of its
\* workers, a call of execute returns Ok and appends the job to the queue.
C24_ExecuteSucceedsWhileLive ==
    [][(owner = "live" /\ DOMAIN jobs' # DOMAIN jobs) =>
          /\ jobs'[Submitted].accepted
          /\ queue' = Append(queue, Submitted)]_vars

\* C25: a read event whose first read call would block leaves the
\* connection open and its write buffer as it was (no reply is appended),
\* and registers no write interest.
C25_WouldBlockIsSilent ==
    [][\A fd \in FDs :
          ReadStep(fd, <<IoWouldBlock>>) =>
              /\ ~crashed'
              /\ fd \in DOMAIN streams_map'
              /\ streams_map'[fd].write_buffer = streams_map[fd].write_buffer
              /\ (<<fd, EVFILT_WRITE>> \in kq') => (<<fd, EVFILT_WRITE>> \in kq)]_vars

\* C26: a PING request that arrives split over two read events is answered
\* once, with the reply of the complete request: the read that delivers its
\* first part appends no reply, and the read that delivers the rest appends
\* exactly +PONG.
C26_RequestBytesAccumulate ==
    [][\A fd \in FDs :
          /\ ReadStepOk(fd, <<IoOk(ReqPingHead)>>) =>
                /\ ~crashed'
                /\ streams_map'[fd].write_buffer = streams_map[fd].write_buffer
          /\ (ReadStepOk(fd, <<IoOk(ReqPingTail)>>) /\ fragment[fd]) =>
                /\ ~crashed'
                /\ Added(streams_map[fd].write_buffer, streams_map'[fd].write_buffer)
                     = to_resp_string(SimpleString(B_PONG))]_vars

\* C27: the handling of a listener event accepts every pending connection:
\* afterwards the backlog is empty and each connection that was pending is in
\* the connection table and registered for read-readiness; an accept error
\* is logged and the reactor keeps running.
C27_AcceptDrainsBacklog ==
    [][/\ AcceptEvent("Ok", TRUE) =>
             /\ ~crashed'
             /\ backlog' = 0
             /\ Cardinality(DOMAIN streams_map') = Cardinality(DOMAIN streams_map) + backlog
             /\ \A fd \in (DOMAIN streams_map') \ (DOMAIN streams_map) :
                    <<fd, EVFILT_READ>> \in kq'
       /\ AcceptEvent("Err", TRUE) =>
             /\ ~crashed'
             /\ log' = "Failed to accept connection"]_vars

=============================================================================
